---- MODULE Spec2Model ----
(***************************************************************************)
(* Resource lifecycle orchestrators of nekotab-app:                        *)
(*   - the tournament retention engine (tabbycat/retention/engine.py)      *)
(*   - the tenant provisioner (infrastructure/control-plane/app)           *)
(* Each is a state machine over the rows of its persistence layer.  The    *)
(* two share no state; SpecRetention and SpecProvision run them apart.     *)
(***************************************************************************)
EXTENDS Integers, Sequences, FiniteSets, TLC

VARIABLES
    now,              \* timezone.now(), in hours
    tournaments,      \* Tournament rows: id -> fields the engine reads and writes
    deletion_log,     \* TournamentDeletionLog rows, in insertion order
    grace_hours,      \* settings.TOURNAMENT_RETENTION_GRACE_HOURS
    last,             \* what the last engine call was given and did (history)
    tenants,          \* rows of the tenants table, in insertion order
    provisioning_log, \* rows of the provisioning_logs table, in insertion order
    databases,        \* names of the tenant databases that exist in PostgreSQL
    call,             \* the provision calls in flight: caller -> position and result
    provisions,       \* number of provision calls started so far
    services,         \* Docker services of the tenant stacks: tenant id -> replicas
    tasks,            \* background provisioning tasks enqueued and not yet started
    response,         \* the request the API answered in the last step, if any
    archive           \* the zip file the exporter wrote last: its members

retention_vars == <<now, tournaments, deletion_log, grace_hours, last,
                    archive>>

api_vars == <<services, tasks, response>>

provision_vars == <<tenants, provisioning_log, databases, call, provisions,
                    services, tasks, response>>

vars == <<now, tournaments, deletion_log, grace_hours, last,
          tenants, provisioning_log, databases, call, provisions,
          services, tasks, response, archive>>

(***************************************************************************)
(* Bounds of the model                                                     *)
(***************************************************************************)
\* the clock runs from 0 to MaxTime
MaxTime == 1
\* the engine is started while the log holds fewer than MaxLogRows rows
MaxLogRows == 2

\* a populated table of an exported tournament holds up to MaxExportRows rows
MaxExportRows == 2

\* primary keys of the stored tournaments
TournamentIds == {1, 2}

\* provision is called at most MaxProvisions times
MaxProvisions == 3

\* at most MaxTasks background tasks wait to be started
MaxTasks == 1

\* suspension is requested while the audit log holds fewer than MaxSuspends
\* suspend rows, deletion while it holds fewer than MaxDeletes delete rows
\* with status started
MaxSuspends == 1
MaxDeletes == 1

\* the execution contexts that run provision concurrently
Callers == {1, 2}

\* the contexts that run the API's background tasks; provision calls that
\* overlap are the subject of SpecProvision
Workers == {1}

(***************************************************************************)
(* Optional values: Python's None and a present value                      *)
(***************************************************************************)
None == <<>>
Some(x) == <<x>>

(***************************************************************************)
(* Settings and units                                                      *)
(***************************************************************************)
HoursPerDay == 24

\* getattr(settings, 'TOURNAMENT_RETENTION_DAYS', 0): the setting is absent
DefaultRetentionDays == 0

\* getattr(settings, 'TOURNAMENT_RETENTION_MODE', 'EXPORT_THEN_DELETE')
DefaultMode == "EXPORT_THEN_DELETE"

\* values of TOURNAMENT_RETENTION_GRACE_HOURS a deployment is run with
GraceChoices == {0, 1}

\* tournament t was created t days before the start of the run
CreatedAt(t) == 0 - t * HoursPerDay

RetentionDaysInputs == {None, Some(0), Some(1), Some(2)}
ModeInputs == {None, Some("EXPORT_THEN_DELETE"), Some("DELETE_ONLY")}

\* what the collaborators of one processing attempt do:
\*   ok             every step succeeds
\*   export_raises  _export raises
\*   delete_raises  _clear_caches or t.delete() raises inside the atomic block
\*   commit_raises  t.delete() returned, the commit at the block's exit raises
\*   log_raises     the delete committed, the insert of the DELETED row raises
\*   notify_raises  send_mail raises
Outcomes == {"ok", "export_raises", "delete_raises", "commit_raises",
             "log_raises", "notify_raises"}

_get_retention_days(override) ==
    IF override # None THEN override[1] ELSE DefaultRetentionDays

_get_mode(override) ==
    IF override # None THEN override[1] ELSE DefaultMode

(***************************************************************************)
(* Queries                                                                 *)
(***************************************************************************)
\* variant: the retention_exempt filter is left out
get_eligible_tournaments_WithExempt(T, n, retention_days) ==
    LET days == _get_retention_days(retention_days) IN
    IF days <= 0 THEN {}
    ELSE LET cutoff == n - days * HoursPerDay IN
         {t \in TournamentIds :
             /\ T[t].exists
             /\ T[t].created_at <= cutoff
             /\ T[t].scheduled_for_deletion_at = None}

\* variant: the scheduled_for_deletion_at__isnull filter is left out
get_eligible_tournaments_Rescheduling(T, n, retention_days) ==
    LET days == _get_retention_days(retention_days) IN
    IF days <= 0 THEN {}
    ELSE LET cutoff == n - days * HoursPerDay IN
         {t \in TournamentIds :
             /\ T[t].exists
             /\ T[t].retention_exempt = FALSE
             /\ T[t].created_at <= cutoff}

\* variant: a retention period of zero days or less is applied like any other
get_eligible_tournaments_NoDisable(T, n, retention_days) ==
    LET days == _get_retention_days(retention_days)
        cutoff == n - days * HoursPerDay
    IN {t \in TournamentIds :
           /\ T[t].exists
           /\ T[t].retention_exempt = FALSE
           /\ T[t].created_at <= cutoff
           /\ T[t].scheduled_for_deletion_at = None}

get_eligible_tournaments(T, n, retention_days) ==
    LET days == _get_retention_days(retention_days) IN
    IF days <= 0 THEN {}
    ELSE LET cutoff == n - days * HoursPerDay IN
         {t \in TournamentIds :
             /\ T[t].exists
             /\ T[t].retention_exempt = FALSE
             /\ T[t].created_at <= cutoff
             /\ T[t].scheduled_for_deletion_at = None}

\* variant: the retention_exempt filter is left out
get_scheduled_for_deletion_WithExempt(T, n) ==
    {t \in TournamentIds :
        /\ T[t].exists
        /\ T[t].scheduled_for_deletion_at # None
        /\ T[t].scheduled_for_deletion_at[1] <= n}

get_scheduled_for_deletion(T, n) ==
    {t \in TournamentIds :
        /\ T[t].exists
        /\ T[t].retention_exempt = FALSE
        /\ T[t].scheduled_for_deletion_at # None
        /\ T[t].scheduled_for_deletion_at[1] <= n}

\* a queryset is iterated in primary-key order
RECURSIVE InOrder(_)
InOrder(S) ==
    IF S = {} THEN <<>>
    ELSE LET m == CHOOSE x \in S : \A y \in S : x <= y
         IN <<m>> \o InOrder(S \ {m})

(***************************************************************************)
(* TournamentDeletionLog.objects.create                                    *)
(***************************************************************************)
LogEntry(tid, status, archive_path, error_message) ==
    [tournament_id |-> tid, status |-> status,
     archive_path |-> archive_path, error_message |-> error_message]

\* the path _export returns: slug, id and timestamp of the export
ArchivePath(t, n) == <<"archive", t, n>>

\* str(exc) of what the collaborator raised
ErrorMessage(outcome) ==
    CASE outcome = "export_raises" -> "export failed"
      [] outcome = "delete_raises" -> "delete failed"
      [] OTHER -> "error"

(***************************************************************************)
(* schedule_eligible                                                       *)
(***************************************************************************)
\* variant: the grace period is not added
DeletionAt_NoGrace(n, gh) == n

DeletionAt(n, gh) == n + gh

ScheduleStatus(dry_run) == IF dry_run THEN "DRY_RUN" ELSE "SCHEDULED"

\* variant: the dry_run branch is missing
ScheduleOne_IgnoreDryRun(row, deletion_at, dry_run) ==
    [row EXCEPT !.scheduled_for_deletion_at = Some(deletion_at)]

ScheduleOne(row, deletion_at, dry_run) ==
    IF dry_run THEN row
    ELSE [row EXCEPT !.scheduled_for_deletion_at = Some(deletion_at)]

schedule_eligible(T, log, n, gh, retention_days, dry_run) ==
    LET deletion_at == DeletionAt(n, gh)
        eligible == get_eligible_tournaments(T, n, retention_days)
        order == InOrder(eligible)
    IN [T |-> [t \in TournamentIds |->
                  IF t \in eligible
                  THEN ScheduleOne(T[t], deletion_at, dry_run)
                  ELSE T[t]],
        log |-> log \o [i \in 1..Len(order) |->
                    LogEntry(order[i], ScheduleStatus(dry_run), <<>>, "")],
        result |-> eligible]

(***************************************************************************)
(* process_deletions                                                       *)
(***************************************************************************)
\* t.id as the except clause reads it: Model.delete() clears the primary key
\* of the instance once the rows are deleted
InstanceId(t, delete_returned) == IF delete_returned THEN None ELSE Some(t)

\* except Exception as exc: (tournament_id is a NOT NULL column, so the
\* insert of a row without an id raises out of the handler)
ExceptHandler(T, log, t, delete_returned, outcome, fate) ==
    LET tid == InstanceId(t, delete_returned) IN
    IF tid = None
    THEN [T |-> T, log |-> log, raised |-> TRUE, fate |-> fate]
    ELSE [T |-> T,
          log |-> Append(log, LogEntry(tid[1], "FAILED", <<>>,
                                       ErrorMessage(outcome))),
          raised |-> FALSE, fate |-> fate]

\* variant: no mode exports
MustExport_Never(mode) == FALSE

MustExport(mode) == mode = "EXPORT_THEN_DELETE"

\* with transaction.atomic(): _clear_caches(t); t.delete()
DeleteRow(T, t) == [T EXCEPT ![t].exists = FALSE]

\* variant: a failed export is logged and the deletion goes on
ProcessOne_DeleteDespiteExportFailure(T, log, n, t, mode, dry_run, outcome) ==
    IF dry_run
    THEN [T |-> T, log |-> Append(log, LogEntry(t, "DRY_RUN", <<>>, "")),
          raised |-> FALSE, fate |-> "dry_run"]
    ELSE IF MustExport(mode) /\ outcome = "export_raises"
    THEN [T |-> DeleteRow(T, t),
          log |-> Append(Append(log, LogEntry(t, "FAILED", <<>>,
                                              ErrorMessage(outcome))),
                         LogEntry(t, "DELETED", <<>>, "")),
          raised |-> FALSE, fate |-> "export_failed"]
    ELSE [T |-> DeleteRow(T, t),
          log |-> Append(log, LogEntry(t, "DELETED", <<>>, "")),
          raised |-> FALSE, fate |-> "deleted"]

\* one iteration of the loop, for tournament t
ProcessOne(T, log, n, t, mode, dry_run, outcome) ==
    IF dry_run
    THEN [T |-> T, log |-> Append(log, LogEntry(t, "DRY_RUN", <<>>, "")),
          raised |-> FALSE, fate |-> "dry_run"]
    ELSE IF MustExport(mode) /\ outcome = "export_raises"
    THEN ExceptHandler(T, log, t, FALSE, outcome, "export_failed")
    ELSE
      LET archive_path == IF MustExport(mode) THEN ArchivePath(t, n) ELSE <<>>
          log1 == IF MustExport(mode)
                  THEN Append(log, LogEntry(t, "EXPORTED", archive_path, ""))
                  ELSE log
      IN  IF outcome = "delete_raises"
          THEN ExceptHandler(T, log1, t, FALSE, outcome, "delete_failed")
          ELSE IF outcome = "commit_raises"
          THEN ExceptHandler(T, log1, t, TRUE, outcome, "commit_failed")
          ELSE IF outcome = "log_raises"
          THEN ExceptHandler(DeleteRow(T, t), log1, t, TRUE, outcome,
                             "deleted_unlogged")
          ELSE [T |-> DeleteRow(T, t),
                log |-> Append(log1, LogEntry(t, "DELETED", archive_path, "")),
                raised |-> FALSE, fate |-> "deleted"]

RECURSIVE ProcessLoop(_, _, _, _, _, _, _, _)
ProcessLoop(work, T, log, n, mode, dry_run, outcome, fates) ==
    IF work = <<>>
    THEN [T |-> T, log |-> log, raised |-> FALSE, fates |-> fates]
    ELSE LET t == Head(work)
             r == ProcessOne(T, log, n, t, mode, dry_run, outcome[t])
             f == [fates EXCEPT ![t] = r.fate]
         IN IF r.raised
            THEN [T |-> r.T, log |-> r.log, raised |-> TRUE, fates |-> f]
            ELSE ProcessLoop(Tail(work), r.T, r.log, n, mode, dry_run,
                             outcome, f)

NoFates == [t \in TournamentIds |-> "untouched"]

process_deletions(T, log, n, mode, dry_run, outcome) ==
    ProcessLoop(InOrder(get_scheduled_for_deletion(T, n)), T, log, n,
                _get_mode(mode), dry_run, outcome, NoFates)

(***************************************************************************)
(* run_retention_cycle                                                     *)
(***************************************************************************)
run_retention_cycle(T, log, n, gh, retention_days, mode, dry_run, outcome) ==
    LET s == schedule_eligible(T, log, n, gh, retention_days, dry_run)
        d == process_deletions(s.T, s.log, n, mode, dry_run, outcome)
    IN [T |-> d.T, log |-> d.log, raised |-> d.raised, fates |-> d.fates,
        scheduled |-> s.result]

(***************************************************************************)
(* The retention state machine                                             *)
(***************************************************************************)
\* command: how a run of purge_tournaments ended, "none" for a call of the
\* engine from elsewhere
NoCall == [called |-> FALSE, dry_run |-> FALSE, mode |-> "", fates |-> NoFates,
           command |-> "none"]

\* the mode a call worked under, when it attempted a deletion
ModeUsed(mode, fates) ==
    IF \E t \in TournamentIds : fates[t] \notin {"untouched", "dry_run"}
    THEN _get_mode(mode) ELSE ""

\* the collaborators' behaviours that make a difference to one call
ApplicableOutcomes(mode, dry_run) ==
    IF dry_run THEN {"ok"}
    ELSE IF MustExport(_get_mode(mode)) THEN Outcomes
    ELSE Outcomes \ {"export_raises"}

\* no export has been made
NoArchive == <<>>

InitTournaments ==
    /\ now = 0
    /\ tournaments = [t \in TournamentIds |->
           [exists |-> TRUE, created_at |-> CreatedAt(t),
            retention_exempt |-> FALSE,
            scheduled_for_deletion_at |-> None]]
    /\ deletion_log = <<>>
    /\ grace_hours \in GraceChoices
    /\ last = NoCall
    /\ archive = NoArchive

\* attempts, checks and migrated are kept by the steps that are followed
\* attempt by attempt: attempts of _create_database made, polls of
\* _wait_for_healthy made, and whether manage.py migrate ran and exited 0
NoProvision == [pc |-> "idle", subdomain |-> <<>>, n |-> 0,
                result |-> "none", failed_step |-> "none",
                attempts |-> 0, checks |-> 0, migrated |-> FALSE]

NoResponse == [endpoint |-> "none", authorized |-> FALSE, target |-> None,
               status |-> 0]

InitTenants ==
    /\ tenants = <<>>
    /\ provisioning_log = <<>>
    /\ databases = {}
    /\ call = [c \in Callers |-> NoProvision]
    /\ provisions = 0
    /\ services = <<>>
    /\ tasks = <<>>
    /\ response = NoResponse

InitRetention == InitTournaments /\ InitTenants

\* time passes between two runs of the engine
Tick ==
    /\ now < MaxTime
    /\ now' = now + 1
    /\ last' = NoCall
    /\ UNCHANGED <<tournaments, deletion_log, grace_hours>>
    /\ UNCHANGED provision_vars
    /\ UNCHANGED archive

\* the owner (or staff) sets or clears retention_exempt in the settings
SetExempt ==
    \E t \in TournamentIds, b \in BOOLEAN :
        /\ tournaments[t].exists
        /\ tournaments[t].retention_exempt # b
        /\ tournaments' = [tournaments EXCEPT ![t].retention_exempt = b]
        /\ last' = NoCall
        /\ UNCHANGED <<now, deletion_log, grace_hours>>
        /\ UNCHANGED provision_vars
        /\ UNCHANGED archive

ScheduleEligible ==
    \E retention_days \in RetentionDaysInputs, dry_run \in BOOLEAN :
        LET r == schedule_eligible(tournaments, deletion_log, now, grace_hours,
                                   retention_days, dry_run)
        IN /\ Len(deletion_log) < MaxLogRows
           /\ tournaments' = r.T
           /\ deletion_log' = r.log
           /\ last' = [called |-> TRUE, dry_run |-> dry_run, mode |-> "",
                       fates |-> NoFates, command |-> "none"]
           /\ UNCHANGED <<now, grace_hours>>
           /\ UNCHANGED provision_vars
           /\ UNCHANGED archive

ProcessDeletions ==
    \E mode \in ModeInputs, dry_run \in BOOLEAN :
      \E outcome \in [get_scheduled_for_deletion(tournaments, now) ->
                         ApplicableOutcomes(mode, dry_run)] :
        LET r == process_deletions(tournaments, deletion_log, now, mode,
                                   dry_run, outcome)
        IN /\ Len(deletion_log) < MaxLogRows
           /\ tournaments' = r.T
           /\ deletion_log' = r.log
           /\ last' = [called |-> TRUE, dry_run |-> dry_run,
                       mode |-> ModeUsed(mode, r.fates), fates |-> r.fates,
                       command |-> "none"]
           /\ UNCHANGED <<now, grace_hours>>
           /\ UNCHANGED provision_vars
           /\ UNCHANGED archive

RunRetentionCycle ==
    \E retention_days \in RetentionDaysInputs, mode \in ModeInputs,
       dry_run \in BOOLEAN :
      LET s == schedule_eligible(tournaments, deletion_log, now, grace_hours,
                                 retention_days, dry_run)
      IN \E outcome \in [get_scheduled_for_deletion(s.T, now) ->
                            ApplicableOutcomes(mode, dry_run)] :
        LET r == run_retention_cycle(tournaments, deletion_log, now,
                     grace_hours, retention_days, mode, dry_run, outcome)
        IN /\ Len(deletion_log) < MaxLogRows
           /\ tournaments' = r.T
           /\ deletion_log' = r.log
           /\ last' = [called |-> TRUE, dry_run |-> dry_run,
                       mode |-> ModeUsed(mode, r.fates), fates |-> r.fates,
                       command |-> "none"]
           /\ UNCHANGED <<now, grace_hours>>
           /\ UNCHANGED provision_vars
           /\ UNCHANGED archive

NextRetention ==
    \/ Tick
    \/ SetExempt
    \/ ScheduleEligible
    \/ ProcessDeletions
    \/ RunRetentionCycle

SpecRetention == InitRetention /\ [][NextRetention]_vars

(***************************************************************************)
(* The purge_tournaments management command                                *)
(***************************************************************************)
\* def run_retention_cycle(retention_days=None, mode=None, dry_run=False)
CycleParameters == {"retention_days", "mode", "dry_run"}

\* the keyword arguments Command.handle calls run_retention_cycle with
HandleKeywords == {"retention_days", "mode", "dry_run", "export_dir"}

\* --mode
ModeArgInputs == {None, Some("delete"), Some("export-delete")}

\* --export-dir
ExportDirInputs == {None, Some("/archives")}

\* mode_map.get(mode_arg)
mode_map(mode_arg) ==
    IF mode_arg = Some("delete") THEN Some("DELETE_ONLY")
    ELSE IF mode_arg = Some("export-delete") THEN Some("EXPORT_THEN_DELETE")
    ELSE None

\* Command.handle from the call of run_retention_cycle on: a keyword the
\* function does not declare makes the call raise TypeError before its body
\* runs; the dry-run preview before it only reads
handle(T, log, n, gh, retention_days, mode_arg, dry_run, outcome) ==
    IF ~(HandleKeywords \subseteq CycleParameters)
    THEN [T |-> T, log |-> log, called |-> FALSE, fates |-> NoFates,
          command |-> "TypeError"]
    ELSE LET r == run_retention_cycle(T, log, n, gh, retention_days,
                                      mode_map(mode_arg), dry_run, outcome)
         IN [T |-> r.T, log |-> r.log, called |-> TRUE, fates |-> r.fates,
             command |-> IF r.raised THEN "raised" ELSE "done"]

\* python manage.py purge_tournaments [--dry-run] [--retention-days N]
\*     [--mode M] [--export-dir D]
PurgeTournaments ==
    \E retention_days \in RetentionDaysInputs, mode_arg \in ModeArgInputs,
       dry_run \in BOOLEAN, export_dir \in ExportDirInputs :
      LET s == schedule_eligible(tournaments, deletion_log, now, grace_hours,
                                 retention_days, dry_run)
      IN \E outcome \in [get_scheduled_for_deletion(s.T, now) ->
                            ApplicableOutcomes(mode_map(mode_arg), dry_run)] :
        LET r == handle(tournaments, deletion_log, now, grace_hours,
                        retention_days, mode_arg, dry_run, outcome)
        IN /\ Len(deletion_log) < MaxLogRows
           /\ tournaments' = r.T
           /\ deletion_log' = r.log
           /\ last' = [called |-> r.called, dry_run |-> dry_run,
                       mode |-> ModeUsed(mode_map(mode_arg), r.fates),
                       fates |-> r.fates, command |-> r.command]
           /\ UNCHANGED <<now, grace_hours>>
           /\ UNCHANGED provision_vars
           /\ UNCHANGED archive

NextCommand ==
    \/ NextRetention
    \/ PurgeTournaments

SpecCommand == InitRetention /\ [][NextCommand]_vars

(***************************************************************************)
(* The tournament exporter                                                 *)
(***************************************************************************)
\* the table registry: filename inside the zip and declared columns
CSV_TABLES ==
  <<[name |-> "tournament.csv",
      columns |-> <<"id", "name", "short_name", "slug", "active",
                    "created_at">>],
     [name |-> "rounds.csv",
      columns |-> <<"id", "seq", "name", "abbreviation", "stage",
                    "draw_type", "draw_status", "completed", "silent",
                    "motions_released", "feedback_weight", "starts_at",
                    "weight">>],
     [name |-> "institutions.csv",
      columns |-> <<"id", "institution__name", "institution__code",
                    "institution__region__name", "teams_requested",
                    "teams_allocated", "adjudicators_requested",
                    "adjudicators_allocated">>],
     [name |-> "teams.csv",
      columns |-> <<"id", "reference", "short_reference", "short_name",
                    "long_name", "code_name", "institution__name",
                    "use_institution_prefix", "emoji", "seed", "type">>],
     [name |-> "speakers.csv",
      columns |-> <<"id", "name", "email", "gender", "team__short_name",
                    "team__id", "anonymous", "code_name">>],
     [name |-> "adjudicators.csv",
      columns |-> <<"id", "name", "email", "gender", "institution__name",
                    "base_score", "trainee", "breaking", "independent",
                    "adj_core">>],
     [name |-> "venues.csv",
      columns |-> <<"id", "name", "priority">>],
     [name |-> "debates.csv",
      columns |-> <<"id", "round__seq", "round__name", "venue__name",
                    "bracket", "room_rank", "importance", "result_status",
                    "sides_confirmed">>],
     [name |-> "debate_teams.csv",
      columns |-> <<"id", "debate__id", "debate__round__seq",
                    "team__short_name", "team__id", "side">>],
     [name |-> "debate_adjudicators.csv",
      columns |-> <<"id", "debate__id", "debate__round__seq",
                    "adjudicator__name", "adjudicator__id", "type">>],
     [name |-> "motions.csv",
      columns |-> <<"id", "reference", "text", "info_slide">>],
     [name |-> "round_motions.csv",
      columns |-> <<"id", "round__seq", "round__name", "motion__reference",
                    "motion__id", "seq">>],
     [name |-> "ballots.csv",
      columns |-> <<"id", "debate__id", "debate__round__seq", "version",
                    "confirmed", "discarded", "timestamp",
                    "submitter_type", "motion__reference", "forfeit",
                    "single_adj">>],
     [name |-> "team_scores.csv",
      columns |-> <<"id", "ballot_submission__id",
                    "debate_team__team__short_name",
                    "debate_team__team__id", "points", "win", "margin",
                    "score", "votes_given", "votes_possible">>],
     [name |-> "speaker_scores.csv",
      columns |-> <<"id", "ballot_submission__id", "speaker__name",
                    "speaker__id", "debate_team__team__short_name",
                    "score", "position", "ghost", "rank">>],
     [name |-> "feedback.csv",
      columns |-> <<"id", "adjudicator__name", "adjudicator__id", "score",
                    "confirmed", "ignored", "timestamp", "version">>],
     [name |-> "break_categories.csv",
      columns |-> <<"id", "name", "slug", "seq", "break_size",
                    "is_general", "priority", "rule">>],
     [name |-> "breaking_teams.csv",
      columns |-> <<"id", "break_category__name", "team__short_name",
                    "team__id", "rank", "break_rank", "remark">>],
     [name |-> "user_permissions.csv",
      columns |-> <<"id", "user__username", "user__email", "permission">>],
     [name |-> "groups.csv",
      columns |-> <<"id", "name", "permissions">>],
     [name |-> "schedule_events.csv",
      columns |-> <<"id", "title", "type", "start_time", "end_time",
                    "round__seq">>],
     [name |-> "adj_team_conflicts.csv",
      columns |-> <<"id", "adjudicator__name", "adjudicator__id",
                    "team__short_name", "team__id">>],
     [name |-> "adj_adj_conflicts.csv",
      columns |-> <<"id", "adjudicator1__name", "adjudicator1__id",
                    "adjudicator2__name", "adjudicator2__id">>],
     [name |-> "adj_institution_conflicts.csv",
      columns |-> <<"id", "adjudicator__name", "adjudicator__id",
                    "institution__name", "institution__id">>]>>

TableNames == {CSV_TABLES[i].name : i \in 1..Len(CSV_TABLES)}

\* the tables that hold rows of the exported tournament, besides the
\* tournament's own row
PopulatedChoices ==
    {"rounds.csv", "teams.csv", "speakers.csv", "debates.csv", "ballots.csv"}

\* qs_fn(tournament).count() for each table
RowCounts(populated, n) ==
    [name \in TableNames |->
        IF name = "tournament.csv" THEN 1
        ELSE IF name \in populated THEN n ELSE 0]

\* _get_value(obj, col) for the r-th object of a table
_get_value(name, r, col) == <<name, r, col>>

\* csv.writer(buf).writerow(cells): one line holding the cells in order
writerow(cells) == [cells |-> cells]

\* variant: the header is written only when the table has rows
CsvMember_HeaderOnlyWithRows(table, count) ==
    [name |-> table.name,
     lines |-> IF count = 0 THEN <<>>
               ELSE <<writerow(table.columns)>> \o
                    [r \in 1..count |->
                        writerow([c \in 1..Len(table.columns) |->
                            _get_value(table.name, r, table.columns[c])])]]

\* the loop body: header, one line per object of the queryset (read in
\* chunks that cover it), zf.writestr(csv_name, buf.getvalue())
CsvMember(table, count) ==
    [name |-> table.name,
     lines |-> <<writerow(table.columns)>> \o
               [r \in 1..count |->
                   writerow([c \in 1..Len(table.columns) |->
                       _get_value(table.name, r, table.columns[c])])]]

\* zf.writestr('_manifest.json', json.dumps(manifest))
Manifest(t) ==
    [name |-> "_manifest.json",
     lines |-> <<[tournament_id |-> t, format |-> "multi-csv-zip",
                  tables |-> [i \in 1..Len(CSV_TABLES) |->
                                 CSV_TABLES[i].name]]>>]

\* the members of the zip file, in the order they were written
export_tournament_csv_zip(t, counts) ==
    [i \in 1..Len(CSV_TABLES) |->
        CsvMember(CSV_TABLES[i], counts[CSV_TABLES[i].name])]
    \o <<Manifest(t)>>

\* ZipFile.namelist()
namelist(zip) == {zip[i].name : i \in 1..Len(zip)}

ExportTournamentCsvZip ==
    \E t \in TournamentIds, populated \in SUBSET PopulatedChoices,
       n \in 1..MaxExportRows :
        /\ tournaments[t].exists
        /\ archive' = export_tournament_csv_zip(t, RowCounts(populated, n))
        /\ UNCHANGED <<now, tournaments, deletion_log, grace_hours, last>>
        /\ UNCHANGED provision_vars

SpecExport == InitRetention /\ [][ExportTournamentCsvZip]_vars

(***************************************************************************)
(* Properties of the retention engine                                      *)
(***************************************************************************)
\* the rows one step appended to the deletion log
NewRows == SubSeq(deletion_log', Len(deletion_log) + 1, Len(deletion_log'))

LogExtended ==
    /\ Len(deletion_log') >= Len(deletion_log)
    /\ SubSeq(deletion_log', 1, Len(deletion_log)) = deletion_log

Rows(log, t, status) ==
    {i \in 1..Len(log) : log[i].tournament_id = t /\ log[i].status = status}

\* the row of t as process_deletions found it: as before the step, or as a
\* schedule_eligible of the same run_retention_cycle left it
AsFound(t) ==
    IF tournaments[t].scheduled_for_deletion_at # None THEN tournaments[t]
    ELSE [tournaments[t] EXCEPT
            !.scheduled_for_deletion_at = Some(now + grace_hours)]

\* C1: in EXPORT_THEN_DELETE mode (dry_run false) a past-grace tournament
\* whose export raises still exists afterwards with its
\* scheduled_for_deletion_at as process_deletions found it, a FAILED row is
\* written for it and no DELETED row; and a tournament deleted in this mode
\* had its export return in the same attempt (an EXPORTED row with the
\* archive path was written in that attempt).
C1_ExportFailureStep ==
    \A t \in TournamentIds :
        /\ (last'.called /\ last'.fates[t] = "export_failed") =>
              /\ last'.mode = "EXPORT_THEN_DELETE"
              /\ ~last'.dry_run
              /\ tournaments'[t] = AsFound(t)
              /\ tournaments'[t].exists
              /\ LogExtended
              /\ Rows(NewRows, t, "FAILED") # {}
              /\ Rows(NewRows, t, "DELETED") = {}
        /\ (/\ last'.called
            /\ last'.mode = "EXPORT_THEN_DELETE"
            /\ tournaments[t].exists
            /\ ~tournaments'[t].exists) =>
              /\ last'.fates[t] # "export_failed"
              /\ \E i \in Rows(NewRows, t, "EXPORTED") :
                    NewRows[i].archive_path # <<>>

C1_ExportBeforeDelete == [][C1_ExportFailureStep]_vars

C1_Witness ==
    /\ last.called
    /\ last.mode = "EXPORT_THEN_DELETE"
    /\ \E t \in TournamentIds :
          /\ last.fates[t] = "export_failed"
          /\ tournaments[t].exists
          /\ Rows(deletion_log, t, "FAILED") # {}

\* C2: a tournament removed by process_deletions has exactly one DELETED row
\* in the deletion log, whichever step fails.
C2_DeletedHasOneDeletedRow ==
    \A t \in TournamentIds :
        ~tournaments[t].exists =>
            Cardinality(Rows(deletion_log, t, "DELETED")) = 1

\* C3: a dry run (schedule_eligible, process_deletions or run_retention_cycle
\* with dry_run=True) changes no tournament row, deletes none, and only
\* appends DRY_RUN rows to the log.
C3_DryRunStep ==
    (last'.called /\ last'.dry_run) =>
        /\ tournaments' = tournaments
        /\ LogExtended
        /\ \A i \in 1..Len(NewRows) : NewRows[i].status = "DRY_RUN"

C3_DryRunNoOp == [][C3_DryRunStep]_vars

C3_Witness ==
    /\ last.called
    /\ last.dry_run
    /\ \E t \in TournamentIds : last.fates[t] = "dry_run"
    /\ \E t \in TournamentIds :
          t \in get_eligible_tournaments(tournaments, now, Some(1))
    /\ deletion_log # <<>>
    /\ deletion_log[Len(deletion_log)].status = "DRY_RUN"

\* C4: a tournament scheduled at time T under grace period G gets
\* scheduled_for_deletion_at = T + G; right after scheduling it is returned by
\* get_scheduled_for_deletion exactly when G = 0; and no tournament is deleted
\* before its scheduled_for_deletion_at.
C4_GraceStep ==
    \A t \in TournamentIds :
        /\ (/\ tournaments[t].scheduled_for_deletion_at = None
            /\ tournaments'[t].scheduled_for_deletion_at # None) =>
              /\ tournaments'[t].scheduled_for_deletion_at
                    = Some(now + grace_hours)
              /\ grace_hours > 0 =>
                    /\ t \notin get_scheduled_for_deletion(tournaments', now')
                    /\ tournaments'[t].exists
              /\ (grace_hours = 0 /\ tournaments'[t].exists) =>
                    t \in get_scheduled_for_deletion(tournaments', now')
        /\ (tournaments[t].exists /\ ~tournaments'[t].exists) =>
              /\ tournaments'[t].scheduled_for_deletion_at # None
              /\ tournaments'[t].scheduled_for_deletion_at[1] <= now

C4_GracePeriod == [][C4_GraceStep]_vars

C4_Witness ==
    /\ grace_hours > 0
    /\ \E t \in TournamentIds :
          /\ ~tournaments[t].exists
          /\ tournaments[t].scheduled_for_deletion_at[1] = now
    /\ \E t \in TournamentIds :
          /\ tournaments[t].exists
          /\ tournaments[t].scheduled_for_deletion_at # None
          /\ tournaments[t].scheduled_for_deletion_at[1] > now

\* C5: an exempt tournament is in get_eligible_tournaments for no
\* retention_days, whatever its age, and no step gives an exempt tournament a
\* scheduled_for_deletion_at.
C5_ExemptNotEligible ==
    \A t \in TournamentIds :
        tournaments[t].retention_exempt =>
            \A d \in RetentionDaysInputs \cup {Some(0 - 1), Some(3)} :
                t \notin get_eligible_tournaments(tournaments, now, d)

C5_ExemptStep ==
    \A t \in TournamentIds :
        (/\ tournaments[t].retention_exempt
         /\ tournaments[t].scheduled_for_deletion_at = None) =>
            tournaments'[t].scheduled_for_deletion_at = None

C5_ExemptionSticky == []C5_ExemptNotEligible /\ [][C5_ExemptStep]_vars

C5_Witness ==
    /\ last.called
    /\ ~last.dry_run
    /\ \E t, u \in TournamentIds :
          /\ tournaments[t].retention_exempt
          /\ tournaments[t].exists
          /\ tournaments[t].created_at <= now - HoursPerDay
          /\ tournaments[t].scheduled_for_deletion_at = None
          /\ u > t
          /\ tournaments[u].scheduled_for_deletion_at # None
          /\ deletion_log[Len(deletion_log)]
                = LogEntry(u, "SCHEDULED", <<>>, "")

\* C6: after a processing attempt that fails for a tournament (an exception
\* in the export or in the delete transaction) the tournament is as before, a
\* FAILED row with the error message is written, and the tournament is again
\* in get_scheduled_for_deletion.
C6_FailureStep ==
    \A t \in TournamentIds :
        (/\ last'.called
         /\ last'.fates[t] \in {"export_failed", "delete_failed",
                                "commit_failed"}) =>
            /\ tournaments'[t] = AsFound(t)
            /\ tournaments'[t].exists
            /\ \E i \in Rows(NewRows, t, "FAILED") :
                  NewRows[i].error_message # ""
            /\ t \in get_scheduled_for_deletion(tournaments', now')

C6_FailureIsLoggedAndRetried == [][C6_FailureStep]_vars

\* C7: the first schedule_eligible that finds a tournament eligible sets its
\* scheduled_for_deletion_at to now + grace_hours and writes one SCHEDULED
\* row; no later call changes the timestamp or writes another SCHEDULED row.
C7_OneScheduledRow ==
    \A t \in TournamentIds :
        Cardinality(Rows(deletion_log, t, "SCHEDULED"))
            = IF tournaments[t].scheduled_for_deletion_at # None THEN 1 ELSE 0

C7_ScheduleStep ==
    \A t \in TournamentIds :
        /\ tournaments[t].scheduled_for_deletion_at # None =>
              /\ tournaments'[t].scheduled_for_deletion_at
                    = tournaments[t].scheduled_for_deletion_at
              /\ Rows(NewRows, t, "SCHEDULED") = {}
        /\ (/\ tournaments[t].scheduled_for_deletion_at = None
            /\ tournaments'[t].scheduled_for_deletion_at # None) =>
              /\ last'.called /\ ~last'.dry_run
              /\ tournaments'[t].scheduled_for_deletion_at
                    = Some(now + grace_hours)
              /\ Cardinality(Rows(NewRows, t, "SCHEDULED")) = 1

C7_SchedulingIdempotent == []C7_OneScheduledRow /\ [][C7_ScheduleStep]_vars

\* a tournament scheduled by an earlier call, and a later call that scheduled
\* another one
C7_Witness ==
    /\ Len(deletion_log) >= 2
    /\ deletion_log[1] = LogEntry(2, "SCHEDULED", <<>>, "")
    /\ deletion_log[2] = LogEntry(1, "SCHEDULED", <<>>, "")
    /\ tournaments[2].scheduled_for_deletion_at # None
    /\ last.called

(***************************************************************************)
(* The tenant provisioner                                                  *)
(***************************************************************************)
\* a subdomain is the sequence of its characters
LowerAlnum ==
    {"a", "b", "c", "d", "e", "f", "g", "h", "i", "j", "k", "l", "m",
     "n", "o", "p", "q", "r", "s", "t", "u", "v", "w", "x", "y", "z",
     "0", "1", "2", "3", "4", "5", "6", "7", "8", "9"}

\* settings.reserved_subdomains
ReservedSubdomains ==
    {<<"w", "w", "w">>,
     <<"a", "d", "m", "i", "n">>,
     <<"a", "p", "i">>,
     <<"c", "o", "n", "t", "r", "o", "l">>,
     <<"t", "r", "a", "e", "f", "i", "k">>,
     <<"g", "r", "a", "f", "a", "n", "a">>,
     <<"p", "r", "o", "m", "e", "t", "h", "e", "u", "s">>,
     <<"m", "a", "i", "l">>,
     <<"f", "t", "p">>,
     <<"s", "s", "h">>,
     <<"d", "a", "t", "a", "b", "a", "s", "e">>,
     <<"s", "t", "a", "t", "i", "c">>,
     <<"m", "e", "d", "i", "a">>,
     <<"c", "d", "n">>,
     <<"a", "s", "s", "e", "t", "s">>}

\* the subdomains provision is called with: a valid one, one that is too
\* short, a reserved one
SubdomainInputs ==
    {<<"a", "c", "m", "e">>, <<"a", "b">>, <<"a", "d", "m", "i", "n">>}

\* the strings of [a-z0-9][a-z0-9-]{2,30}[a-z0-9]
FullMatch(subdomain) ==
    /\ Len(subdomain) >= 1 + 2 + 1
    /\ Len(subdomain) <= 1 + 30 + 1
    /\ subdomain[1] \in LowerAlnum
    /\ subdomain[Len(subdomain)] \in LowerAlnum
    /\ \A i \in 2..(Len(subdomain) - 1) :
          subdomain[i] \in LowerAlnum \cup {"-"}

\* re.match(r'^[a-z0-9][a-z0-9-]{2,30}[a-z0-9]$', subdomain): without
\* re.MULTILINE, $ matches at the end of the string and also just before a
\* newline that is the last character
MatchesPattern(subdomain) ==
    \/ FullMatch(subdomain)
    \/ /\ Len(subdomain) > 0
       /\ subdomain[Len(subdomain)] = "\n"
       /\ FullMatch(SubSeq(subdomain, 1, Len(subdomain) - 1))

\* "ok", or the ProvisioningError it raises
_validate_subdomain(subdomain) ==
    IF ~MatchesPattern(subdomain) THEN "invalid_format"
    ELSE IF subdomain \in ReservedSubdomains THEN "reserved"
    ELSE "ok"

\* hashlib.sha256(subdomain.encode()).hexdigest()[:12]
_generate_tenant_id(subdomain) == <<"sha256">> \o subdomain

DbName(tenant_id) == <<"nekotab_">> \o tenant_id

\* select(Tenant).where(Tenant.subdomain == subdomain)
TenantsBySubdomain(rows, subdomain) ==
    {i \in 1..Len(rows) : rows[i].subdomain = subdomain}

TenantsById(rows, tenant_id) ==
    {i \in 1..Len(rows) : rows[i].id = tenant_id}

\* the INSERT of a tenant row: id is the primary key, subdomain is unique
InsertAccepted(rows, row) ==
    /\ TenantsById(rows, row.id) = {}
    /\ TenantsBySubdomain(rows, row.subdomain) = {}

NewTenant(subdomain) ==
    [id |-> _generate_tenant_id(subdomain), subdomain |-> subdomain,
     status |-> "PROVISIONING", activated_at |-> None,
     suspended_at |-> None, deleted_at |-> None, metadata |-> {}]

\* the handler rolling the tenant row back instead of keeping it
SetStatus_RollBack(rows, tenant_id, status) ==
    SelectSeq(rows, LAMBDA r : r.id # tenant_id)

\* tenant.status = ...; await self.db.commit()
SetStatus(rows, tenant_id, status) ==
    [i \in 1..Len(rows) |->
        IF rows[i].id = tenant_id THEN [rows[i] EXCEPT !.status = status]
        ELSE rows[i]]

\* variant: the activation time is not stamped
SetActive_NoStamp(rows, tenant_id) ==
    [i \in 1..Len(rows) |->
        IF rows[i].id = tenant_id THEN [rows[i] EXCEPT !.status = "ACTIVE"]
        ELSE rows[i]]

\* tenant.status = ACTIVE; tenant.activated_at = utcnow(); commit
SetActive(rows, tenant_id) ==
    [i \in 1..Len(rows) |->
        IF rows[i].id = tenant_id
        THEN [rows[i] EXCEPT !.status = "ACTIVE",
                             !.activated_at = Some("utcnow")]
        ELSE rows[i]]

\* service.update(mode={'Replicated': {'Replicas': n}}) on the services of
\* the tenant's stack; create says whether the stack is deployed if missing
Scaled(svc, tenant_id, replicas, create) ==
    [id \in DOMAIN svc \cup (IF create THEN {tenant_id} ELSE {}) |->
        IF id = tenant_id THEN replicas ELSE svc[id]]

\* docker stack rm
StackRemoved(svc, tenant_id) ==
    [id \in DOMAIN svc \ {tenant_id} |-> svc[id]]

\* ProvisioningLog row
ProvisioningLogEntry(tenant_id, action, status, message) ==
    [tenant_id |-> tenant_id, action |-> action, status |-> status,
     message |-> message]

\* an audit log that keeps one row per tenant and action, rewriting it
_log_action_Rewriting(log, tenant_id, action, status, message) ==
    IF \E i \in 1..Len(log) :
           log[i].tenant_id = tenant_id /\ log[i].action = action
    THEN [i \in 1..Len(log) |->
            IF log[i].tenant_id = tenant_id /\ log[i].action = action
            THEN ProvisioningLogEntry(tenant_id, action, status, message)
            ELSE log[i]]
    ELSE Append(log, ProvisioningLogEntry(tenant_id, action, status, message))

\* self.db.add(log_entry); await self.db.commit()
_log_action(log, tenant_id, action, status, message) ==
    Append(log, ProvisioningLogEntry(tenant_id, action, status, message))

\* str(e) of what a provisioning step raises
StepError(step) ==
    CASE step = "create_database" -> "RetryError"
      [] step = "deploy" -> "Stack deploy failed"
      [] step = "wait_healthy" -> "Service failed to become healthy"
      [] step = "run_migrations" -> "Migrations failed"
      [] OTHER -> "error"

Finished(c, result, step) ==
    [call EXCEPT ![c].pc = "done", ![c].result = result,
                 ![c].failed_step = step]

\* provision(subdomain): validation and the uniqueness check
Begin(c, subdomain) ==
        /\ call[c].pc \in {"idle", "done"}
        /\ provisions < MaxProvisions
        /\ provisions' = provisions + 1
        /\ LET started == [call EXCEPT ![c] =
                   [pc |-> "checked", subdomain |-> subdomain,
                    n |-> provisions + 1,
                    result |-> "none", failed_step |-> "none",
                    attempts |-> 0, checks |-> 0, migrated |-> FALSE]]
           IN call' =
                IF _validate_subdomain(subdomain) # "ok"
                THEN [started EXCEPT ![c].pc = "done",
                        ![c].result = "ProvisioningError",
                        ![c].failed_step = "validate"]
                ELSE IF TenantsBySubdomain(tenants, subdomain) # {}
                THEN [started EXCEPT ![c].pc = "done",
                        ![c].result = "ProvisioningError",
                        ![c].failed_step = "exists"]
                ELSE started
        /\ UNCHANGED <<tenants, provisioning_log, databases>>
        /\ response' = NoResponse
        /\ UNCHANGED services
        /\ UNCHANGED retention_vars

\* provision called directly
ProvisionStart(c) ==
    \E subdomain \in SubdomainInputs :
        /\ Begin(c, subdomain)
        /\ UNCHANGED tasks

\* provision_task: a background task enqueued by an endpoint starts
RunTask(c) ==
    /\ tasks # <<>>
    /\ Begin(c, Head(tasks))
    /\ tasks' = Tail(tasks)

\* self.db.add(tenant); commit; _log_action(tenant_id, "create", "started")
InsertTenant(c) ==
    /\ call[c].pc = "checked"
    /\ LET row == NewTenant(call[c].subdomain) IN
       IF InsertAccepted(tenants, row)
       THEN /\ tenants' = Append(tenants, row)
            /\ provisioning_log' = _log_action(provisioning_log,
                   row.id, "create", "started", None)
            /\ call' = [call EXCEPT ![c].pc = "create_database"]
       ELSE /\ call' = Finished(c, "IntegrityError", "insert")
            /\ UNCHANGED <<tenants, provisioning_log>>
    /\ UNCHANGED <<databases, provisions>>
    /\ response' = NoResponse
    /\ UNCHANGED <<services, tasks>>
    /\ UNCHANGED retention_vars

\* except Exception as e: of provision
ProvisionFailed(c, step) ==
    LET tenant_id == _generate_tenant_id(call[c].subdomain) IN
    /\ tenants' = SetStatus(tenants, tenant_id, "ERROR")
    /\ provisioning_log' = _log_action(provisioning_log,
           tenant_id, "create", "failed", Some(StepError(step)))
    /\ call' = Finished(c, "ProvisioningError", step)

StepDone(c, next) ==
    /\ call' = [call EXCEPT ![c].pc = next]
    /\ UNCHANGED <<tenants, provisioning_log>>

\* _create_database: ok, or the third attempt failed too
CreateDatabase(c) ==
    /\ call[c].pc = "create_database"
    /\ \E ok \in BOOLEAN :
          IF ok
          THEN /\ databases' = databases \cup
                      {DbName(_generate_tenant_id(call[c].subdomain))}
               /\ StepDone(c, "deploy")
          ELSE /\ ProvisionFailed(c, "create_database")
               /\ UNCHANGED databases
    /\ UNCHANGED provisions
    /\ response' = NoResponse
    /\ UNCHANGED <<services, tasks>>
    /\ UNCHANGED retention_vars

\* _deploy_docker_stack
DeployStack(c) ==
    /\ call[c].pc = "deploy"
    /\ \E ok \in BOOLEAN :
          IF ok
          THEN /\ services' = Scaled(services,
                      _generate_tenant_id(call[c].subdomain), 1, TRUE)
               /\ StepDone(c, "wait_healthy")
          ELSE /\ ProvisionFailed(c, "deploy")
               /\ UNCHANGED services
    /\ response' = NoResponse
    /\ UNCHANGED <<databases, provisions, tasks>>
    /\ UNCHANGED retention_vars

\* _wait_for_healthy, and the raise when it returns False
WaitForHealthy(c) ==
    /\ call[c].pc = "wait_healthy"
    /\ \E healthy \in BOOLEAN :
          IF healthy THEN StepDone(c, "run_migrations")
          ELSE ProvisionFailed(c, "wait_healthy")
    /\ UNCHANGED <<databases, provisions>>
    /\ response' = NoResponse
    /\ UNCHANGED <<services, tasks>>
    /\ UNCHANGED retention_vars

\* _run_migrations: it returned (the migration ran and exited 0, or no
\* container was found), or it raised
RunMigrations(c) ==
    /\ call[c].pc = "run_migrations"
    /\ \E ok \in BOOLEAN :
          IF ok THEN StepDone(c, "mark_active")
          ELSE ProvisionFailed(c, "run_migrations")
    /\ UNCHANGED <<databases, provisions>>
    /\ response' = NoResponse
    /\ UNCHANGED <<services, tasks>>
    /\ UNCHANGED retention_vars

\* tenant.status = ACTIVE; activated_at; commit; _log_action(.., "success")
MarkActive(c) ==
    /\ call[c].pc = "mark_active"
    /\ LET tenant_id == _generate_tenant_id(call[c].subdomain) IN
       /\ tenants' = SetActive(tenants, tenant_id)
       /\ provisioning_log' = _log_action(provisioning_log,
              tenant_id, "create", "success", Some("Tenant provisioned"))
    /\ call' = Finished(c, "ok", "none")
    /\ UNCHANGED <<databases, provisions>>
    /\ response' = NoResponse
    /\ UNCHANGED <<services, tasks>>
    /\ UNCHANGED retention_vars

(***************************************************************************)
(* suspend, delete and the endpoints of the control-plane API              *)
(***************************************************************************)
\* settings.api_key
SettingsApiKey == "secret"

\* the X-API-Key header of a request: absent, wrong, right
ApiKeyInputs == {None, Some("wrong"), Some(SettingsApiKey)}

\* the tenant id requests name; no such tenant exists until it is provisioned
TenantIdInputs == {_generate_tenant_id(<<"a", "c", "m", "e">>)}

\* the reason query parameter of a suspend request
ReasonInputs == {Some("abuse")}

\* TRUE when the dependency lets the request through
verify_api_key(api_key) ==
    ~(api_key = None \/ api_key[1] = "" \/ api_key[1] # SettingsApiKey)

\* variant: the webhook compares nothing
WebhookKeyAccepted_Open(api_key) == TRUE

\* signup_webhook: not (api_key != settings.api_key)
WebhookKeyAccepted(api_key) == api_key = Some(SettingsApiKey)

\* TenantCreate.subdomain: min_length=4, max_length=32,
\* pattern ^[a-z0-9][a-z0-9-]*[a-z0-9]$
TenantCreateAccepts(subdomain) ==
    /\ Len(subdomain) >= 4
    /\ Len(subdomain) <= 32
    /\ subdomain[1] \in LowerAlnum
    /\ subdomain[Len(subdomain)] \in LowerAlnum
    /\ \A i \in 2..(Len(subdomain) - 1) :
          subdomain[i] \in LowerAlnum \cup {"-"}

\* tenant.status = SUSPENDED; suspended_at; metadata[suspend_reason]
SetSuspended(rows, tenant_id, reason) ==
    [i \in 1..Len(rows) |->
        IF rows[i].id = tenant_id
        THEN [rows[i] EXCEPT
                !.status = "SUSPENDED",
                !.suspended_at = Some("utcnow"),
                !.metadata = {kv \in @ : kv[1] # "suspend_reason"}
                                 \cup {<<"suspend_reason", reason>>}]
        ELSE rows[i]]

\* tenant.status = ACTIVE; tenant.suspended_at = None
SetResumed(rows, tenant_id) ==
    [i \in 1..Len(rows) |->
        IF rows[i].id = tenant_id
        THEN [rows[i] EXCEPT !.status = "ACTIVE", !.suspended_at = None]
        ELSE rows[i]]

\* tenant.status = DELETED; tenant.deleted_at = utcnow()
SetDeleted(rows, tenant_id) ==
    [i \in 1..Len(rows) |->
        IF rows[i].id = tenant_id
        THEN [rows[i] EXCEPT !.status = "DELETED",
                             !.deleted_at = Some("utcnow")]
        ELSE rows[i]]

\* variant: a scaling failure aborts the suspension
suspend_FailOnScaling(rows, log, svc, tenant_id, reason, scaled) ==
    IF TenantsById(rows, tenant_id) = {} \/ ~scaled
    THEN [tenants |-> rows, log |-> log, services |-> svc,
          result |-> "ProvisioningError"]
    ELSE [tenants |-> SetSuspended(rows, tenant_id, reason),
          log |-> _log_action(log, tenant_id, "suspend", "success", reason),
          services |-> Scaled(svc, tenant_id, 0, FALSE),
          result |-> "ok"]

\* TenantProvisioner.suspend; scaled is FALSE when the Docker calls raise
suspend(rows, log, svc, tenant_id, reason, scaled) ==
    IF TenantsById(rows, tenant_id) = {}
    THEN [tenants |-> rows, log |-> log, services |-> svc,
          result |-> "ProvisioningError"]
    ELSE [tenants |-> SetSuspended(rows, tenant_id, reason),
          log |-> _log_action(log, tenant_id, "suspend", "success", reason),
          services |-> IF scaled THEN Scaled(svc, tenant_id, 0, FALSE)
                       ELSE svc,
          result |-> "ok"]

\* what the collaborators of one delete do:
\*   ok                    every step succeeds
\*   stack_rm_nonzero      docker stack rm exits with a non-zero status
\*   stack_rm_raises       subprocess.run raises (timeout, no docker binary)
\*   connect_raises        asyncpg.connect raises
\*   terminate_raises      pg_terminate_backend raises
\*   drop_database_raises  DROP DATABASE raises
\*   drop_user_raises      DROP USER raises
DeleteOutcomes ==
    {"ok", "stack_rm_nonzero", "stack_rm_raises", "connect_raises",
     "terminate_raises", "drop_database_raises", "drop_user_raises"}

\* str(e) of what a step of delete raises
DeleteError(outcome) ==
    IF outcome = "stack_rm_raises" THEN "TimeoutExpired" ELSE "PostgresError"

\* TenantProvisioner.delete
delete(rows, log, svc, dbs, tenant_id, outcome) ==
    IF TenantsById(rows, tenant_id) = {}
    THEN [tenants |-> rows, log |-> log, services |-> svc,
          databases |-> dbs, result |-> "ProvisioningError"]
    ELSE
    LET started == _log_action(log, tenant_id, "delete", "started", None)
        failed == _log_action(started, tenant_id, "delete", "failed",
                              Some(DeleteError(outcome)))
        svc1 == IF outcome = "stack_rm_nonzero" THEN svc
                ELSE StackRemoved(svc, tenant_id)
        dbs1 == dbs \ {DbName(tenant_id)}
    IN  IF outcome = "stack_rm_raises"
        THEN [tenants |-> rows, log |-> failed, services |-> svc,
              databases |-> dbs, result |-> "ProvisioningError"]
        ELSE IF outcome \in {"connect_raises", "terminate_raises",
                             "drop_database_raises"}
        THEN [tenants |-> rows, log |-> failed, services |-> svc1,
              databases |-> dbs, result |-> "ProvisioningError"]
        ELSE IF outcome = "drop_user_raises"
        THEN [tenants |-> rows, log |-> failed, services |-> svc1,
              databases |-> dbs1, result |-> "ProvisioningError"]
        ELSE [tenants |-> SetDeleted(rows, tenant_id),
              log |-> _log_action(started, tenant_id, "delete", "success",
                                  None),
              services |-> svc1, databases |-> dbs1, result |-> "ok"]

\* variant: any existing tenant is resumed
resume_tenant_AnyStatus(rows, svc, tenant_id, scaled) ==
    IF TenantsById(rows, tenant_id) = {}
    THEN [tenants |-> rows, services |-> svc, status |-> 404]
    ELSE IF ~scaled
    THEN [tenants |-> rows, services |-> svc, status |-> 500]
    ELSE [tenants |-> SetResumed(rows, tenant_id),
          services |-> Scaled(svc, tenant_id, 1, FALSE), status |-> 200]

\* the body of resume_tenant; scaled is FALSE when the Docker calls raise
resume_tenant(rows, svc, tenant_id, scaled) ==
    IF TenantsById(rows, tenant_id) = {}
    THEN [tenants |-> rows, services |-> svc, status |-> 404]
    ELSE IF \E i \in TenantsById(rows, tenant_id) :
                rows[i].status # "SUSPENDED"
    THEN [tenants |-> rows, services |-> svc, status |-> 400]
    ELSE IF ~scaled
    THEN [tenants |-> rows, services |-> svc, status |-> 500]
    ELSE [tenants |-> SetResumed(rows, tenant_id),
          services |-> Scaled(svc, tenant_id, 1, FALSE), status |-> 200]

\* number of audit rows with this action and status
Audited(log, action, status) ==
    Cardinality({i \in 1..Len(log) :
                    log[i].action = action /\ log[i].status = status})

\* the answer to a request
Answer(endpoint, api_key, target, status) ==
    response' = [endpoint |-> endpoint,
                 authorized |-> (api_key = Some(SettingsApiKey)),
                 target |-> Some(target), status |-> status]

\* POST /tenants
CreateTenant ==
    \E api_key \in ApiKeyInputs, subdomain \in SubdomainInputs :
        /\ Len(tasks) < MaxTasks
        /\ LET status ==
                 IF ~verify_api_key(api_key) THEN 403
                 ELSE IF ~TenantCreateAccepts(subdomain) THEN 422
                 ELSE IF _validate_subdomain(subdomain) # "ok" THEN 400
                 ELSE IF TenantsBySubdomain(tenants, subdomain) # {} THEN 409
                 ELSE 202
           IN /\ Answer("create_tenant", api_key, subdomain, status)
              /\ tasks' = IF status = 202 THEN Append(tasks, subdomain)
                          ELSE tasks
        /\ UNCHANGED <<tenants, provisioning_log, databases, call,
                       provisions, services>>
        /\ UNCHANGED retention_vars

\* POST /webhooks/signup
SignupWebhook ==
    \E api_key \in ApiKeyInputs, subdomain \in SubdomainInputs :
        /\ Len(tasks) < MaxTasks
        /\ LET status == IF ~WebhookKeyAccepted(api_key) THEN 403 ELSE 202
           IN /\ Answer("signup_webhook", api_key, subdomain, status)
              /\ tasks' = IF status = 202 THEN Append(tasks, subdomain)
                          ELSE tasks
        /\ UNCHANGED <<tenants, provisioning_log, databases, call,
                       provisions, services>>
        /\ UNCHANGED retention_vars

\* POST /tenants/{tenant_id}/suspend
SuspendTenant ==
    \E api_key \in ApiKeyInputs, tenant_id \in TenantIdInputs,
       reason \in ReasonInputs, scaled \in BOOLEAN :
        /\ Audited(provisioning_log, "suspend", "success") < MaxSuspends
        /\ IF ~verify_api_key(api_key)
           THEN /\ Answer("suspend_tenant", api_key, tenant_id, 403)
                /\ UNCHANGED <<tenants, provisioning_log, services>>
           ELSE LET r == suspend(tenants, provisioning_log, services,
                                 tenant_id, reason, scaled)
                IN /\ tenants' = r.tenants
                   /\ provisioning_log' = r.log
                   /\ services' = r.services
                   /\ Answer("suspend_tenant", api_key, tenant_id,
                             IF r.result = "ok" THEN 200 ELSE 400)
        /\ UNCHANGED <<databases, call, provisions, tasks>>
        /\ UNCHANGED retention_vars

\* POST /tenants/{tenant_id}/resume
ResumeTenant ==
    \E api_key \in ApiKeyInputs, tenant_id \in TenantIdInputs,
       scaled \in BOOLEAN :
        /\ IF ~verify_api_key(api_key)
           THEN /\ Answer("resume_tenant", api_key, tenant_id, 403)
                /\ UNCHANGED <<tenants, services>>
           ELSE LET r == resume_tenant(tenants, services, tenant_id, scaled)
                IN /\ tenants' = r.tenants
                   /\ services' = r.services
                   /\ Answer("resume_tenant", api_key, tenant_id, r.status)
        /\ UNCHANGED <<provisioning_log, databases, call, provisions, tasks>>
        /\ UNCHANGED retention_vars

\* DELETE /tenants/{tenant_id}
DeleteTenant ==
    \E api_key \in ApiKeyInputs, tenant_id \in TenantIdInputs,
       confirm \in BOOLEAN, outcome \in DeleteOutcomes :
        /\ Audited(provisioning_log, "delete", "started") < MaxDeletes
        /\ IF ~verify_api_key(api_key) \/ ~confirm
           THEN /\ Answer("delete_tenant", api_key, tenant_id,
                          IF ~verify_api_key(api_key) THEN 403 ELSE 400)
                /\ UNCHANGED <<tenants, provisioning_log, services,
                               databases>>
           ELSE LET r == delete(tenants, provisioning_log, services,
                                databases, tenant_id, outcome)
                IN /\ tenants' = r.tenants
                   /\ provisioning_log' = r.log
                   /\ services' = r.services
                   /\ databases' = r.databases
                   /\ Answer("delete_tenant", api_key, tenant_id,
                             IF r.result = "ok" THEN 200 ELSE 400)
        /\ UNCHANGED <<call, provisions, tasks>>
        /\ UNCHANGED retention_vars

IdleRetention ==
    /\ now = 0
    /\ tournaments = [t \in TournamentIds |->
           [exists |-> TRUE, created_at |-> CreatedAt(t),
            retention_exempt |-> FALSE,
            scheduled_for_deletion_at |-> None]]
    /\ deletion_log = <<>>
    /\ grace_hours = 0
    /\ last = NoCall
    /\ archive = NoArchive

InitProvision == InitTenants /\ IdleRetention

NextProvision ==
    \E c \in Callers :
        \/ ProvisionStart(c)
        \/ InsertTenant(c)
        \/ CreateDatabase(c)
        \/ DeployStack(c)
        \/ WaitForHealthy(c)
        \/ RunMigrations(c)
        \/ MarkActive(c)

SpecProvision == InitProvision /\ [][NextProvision]_vars

\* the control plane: the API, its background tasks and provision
NextControlPlane ==
    \/ \E c \in Workers :
          \/ RunTask(c)
          \/ InsertTenant(c)
          \/ CreateDatabase(c)
          \/ DeployStack(c)
          \/ WaitForHealthy(c)
          \/ RunMigrations(c)
          \/ MarkActive(c)
    \/ CreateTenant
    \/ SignupWebhook
    \/ SuspendTenant
    \/ ResumeTenant
    \/ DeleteTenant

SpecControlPlane == InitProvision /\ [][NextControlPlane]_vars

(***************************************************************************)
(* One provision call followed attempt by attempt                          *)
(***************************************************************************)
\* @retry(stop=stop_after_attempt(3), ...)
MaxAttempts == 3

\* _wait_for_healthy(self, tenant, timeout: int = 120)
HealthTimeout == 120

\* range(timeout // 5), asyncio.sleep(5)
PollInterval == 5

HealthChecks == HealthTimeout \div PollInterval

\* variant: stop_after_attempt allows one attempt more
RetryAgain_OneMore(attempt) == attempt <= MaxAttempts

\* tenacity: after a failed attempt, another one is made unless this was the
\* last allowed
RetryAgain(attempt) == attempt < MaxAttempts

\* variant: the poll counter starts over instead of running out
NextCheck_StartingOver(checks) == (checks + 1) % HealthChecks

\* the loop variable of for _ in range(timeout // 5)
NextCheck(checks) == checks + 1

\* what _run_migrations meets: the migration exits 0, exits non-zero, or
\* containers.list returns no container
MigrationOutcomes == {"migrated", "nonzero_exit", "no_container"}

\* variant: a missing container is a failure
MigrationRaises_NoContainer(outcome) == outcome # "migrated"

\* _run_migrations raises only on a non-zero exit code
MigrationRaises(outcome) == outcome = "nonzero_exit"

\* the except handler of provision, for a step followed attempt by attempt
StepFailed(c, step, counted) ==
    LET tenant_id == _generate_tenant_id(call[c].subdomain) IN
    /\ tenants' = SetStatus(tenants, tenant_id, "ERROR")
    /\ provisioning_log' = _log_action(provisioning_log,
           tenant_id, "create", "failed", Some(StepError(step)))
    /\ call' = [counted EXCEPT ![c].pc = "done",
                  ![c].result = "ProvisioningError",
                  ![c].failed_step = step]

\* one attempt of _create_database
AttemptCreateDatabase(c) ==
    /\ call[c].pc = "create_database"
    /\ \E ok \in BOOLEAN :
          LET attempt == call[c].attempts + 1
              counted == [call EXCEPT ![c].attempts = attempt]
          IN IF ok
             THEN /\ databases' = databases \cup
                         {DbName(_generate_tenant_id(call[c].subdomain))}
                  /\ call' = [counted EXCEPT ![c].pc = "deploy"]
                  /\ UNCHANGED <<tenants, provisioning_log>>
             ELSE IF RetryAgain(attempt)
             THEN /\ call' = counted
                  /\ UNCHANGED <<databases, tenants, provisioning_log>>
             ELSE /\ StepFailed(c, "create_database", counted)
                  /\ UNCHANGED databases
    /\ UNCHANGED provisions
    /\ response' = NoResponse
    /\ UNCHANGED <<services, tasks>>
    /\ UNCHANGED retention_vars

\* one iteration of the loop of _wait_for_healthy: a running task ends it
\* with True; otherwise it sleeps and, after the last iteration, returns
\* False and provision raises
PollHealth(c) ==
    /\ call[c].pc = "wait_healthy"
    /\ \E running \in BOOLEAN :
          LET counted == [call EXCEPT ![c].checks = NextCheck(@)]
          IN IF running
             THEN /\ call' = [counted EXCEPT ![c].pc = "run_migrations"]
                  /\ UNCHANGED <<tenants, provisioning_log>>
             ELSE IF counted[c].checks < HealthChecks
             THEN /\ call' = counted
                  /\ UNCHANGED <<tenants, provisioning_log>>
             ELSE StepFailed(c, "wait_healthy", counted)
    /\ UNCHANGED <<databases, provisions>>
    /\ response' = NoResponse
    /\ UNCHANGED <<services, tasks>>
    /\ UNCHANGED retention_vars

\* _run_migrations, with what it found
Migrate(c) ==
    /\ call[c].pc = "run_migrations"
    /\ \E outcome \in MigrationOutcomes :
          IF MigrationRaises(outcome)
          THEN StepFailed(c, "run_migrations", call)
          ELSE /\ call' = [call EXCEPT ![c].pc = "mark_active",
                              ![c].migrated = (outcome = "migrated")]
               /\ UNCHANGED <<tenants, provisioning_log>>
    /\ UNCHANGED <<databases, provisions>>
    /\ response' = NoResponse
    /\ UNCHANGED <<services, tasks>>
    /\ UNCHANGED retention_vars

NextSteps ==
    \E c \in Workers :
        \/ ProvisionStart(c)
        \/ InsertTenant(c)
        \/ AttemptCreateDatabase(c)
        \/ DeployStack(c)
        \/ PollHealth(c)
        \/ Migrate(c)
        \/ MarkActive(c)

SpecSteps == InitProvision /\ [][NextSteps]_vars

\* the coroutine of a provision call keeps running, and each external call
\* it awaits returns or times out
SpecStepsFair ==
    /\ SpecSteps
    /\ \A c \in Workers :
          /\ WF_vars(InsertTenant(c))
          /\ WF_vars(AttemptCreateDatabase(c))
          /\ WF_vars(DeployStack(c))
          /\ WF_vars(PollHealth(c))
          /\ WF_vars(Migrate(c))
          /\ WF_vars(MarkActive(c))

(***************************************************************************)
(* Properties of the provisioner                                           *)
(***************************************************************************)
ProvisionSteps ==
    {"create_database", "deploy", "wait_healthy", "run_migrations"}

\* caller c's provision raised from one of the steps in this transition
StepRaised(c) ==
    /\ call[c].pc \in ProvisionSteps
    /\ call'[c].pc = "done"
    /\ call'[c].failed_step = call[c].pc

\* C8: a provision call that finds its subdomain taken, at the uniqueness
\* check or at the insert it raced another call to, fails with
\* ProvisioningError, and the store holds exactly one row for the subdomain.
C8_DuplicateFailsWithProvisioningError ==
    \A c \in Callers :
        (call[c].pc = "done" /\ call[c].failed_step \in {"exists", "insert"})
            => /\ call[c].result = "ProvisioningError"
               /\ Cardinality(TenantsBySubdomain(tenants,
                                                 call[c].subdomain)) = 1

\* C9: a step of provision that raises after the row was persisted leaves
\* exactly one row for the subdomain, in ERROR and not ACTIVE, appends a
\* create/failed log entry with a non-empty message for the tenant, and the
\* caller receives ProvisioningError.
C9_FailureStep ==
    \A c \in Callers :
        StepRaised(c) =>
            LET sub == call[c].subdomain
                tenant_id == _generate_tenant_id(sub)
                found == TenantsBySubdomain(tenants', sub)
            IN /\ Cardinality(found) = 1
               /\ \A i \in found : /\ tenants'[i].status = "ERROR"
                                   /\ tenants'[i].id = tenant_id
               /\ Len(provisioning_log') = Len(provisioning_log) + 1
               /\ LET entry == provisioning_log'[Len(provisioning_log')]
                  IN /\ entry.tenant_id = tenant_id
                     /\ entry.action = "create"
                     /\ entry.status = "failed"
                     /\ entry.message # None
                     /\ entry.message[1] # ""
               /\ call'[c].result = "ProvisioningError"

C9_FailureLeavesDiagnosableState == [][C9_FailureStep]_vars

\* a health-poll timeout has left the tenant in ERROR with its failed entry
C9_Witness ==
    \E c \in Callers :
        /\ call[c].pc = "done"
        /\ call[c].failed_step = "wait_healthy"
        /\ call[c].result = "ProvisioningError"
        /\ \E i \in TenantsBySubdomain(tenants, call[c].subdomain) :
              tenants[i].status = "ERROR"
        /\ \E j \in 1..Len(provisioning_log) :
              /\ provisioning_log[j].status = "failed"
              /\ provisioning_log[j].tenant_id =
                     _generate_tenant_id(call[c].subdomain)

\* C10: provision re-invoked on a subdomain whose tenant is in ERROR is
\* accepted as a retry: it is not rejected and the tenant is PROVISIONING
\* again.
C10_RetryStep ==
    \A c \in Callers :
        LET sub == call'[c].subdomain
            found == TenantsBySubdomain(tenants, sub)
        IN (/\ call'[c].n # call[c].n
            /\ call'[c].failed_step # "validate"
            /\ found # {}
            /\ \A i \in found : tenants[i].status = "ERROR")
           => /\ call'[c].result # "ProvisioningError"
              /\ \A i \in TenantsBySubdomain(tenants', sub) :
                    tenants'[i].status = "PROVISIONING"

C10_ErrorIsRetried == [][C10_RetryStep]_vars

(***************************************************************************)
(* Properties of the control plane                                         *)
(***************************************************************************)
\* the tenant row with this id, where there is one
TenantRow(rows, tenant_id) ==
    rows[CHOOSE i \in TenantsById(rows, tenant_id) : TRUE]

\* this step answered a request to the endpoint, sent with the right key
Answered(endpoint) ==
    /\ response'.endpoint = endpoint
    /\ response'.authorized

\* C11: a tenant whose status is DELETED keeps that status in every step
\* that answers a suspend, resume or delete request or starts a provision
\* call.
C11_DeletedStep ==
    (response'.endpoint # "none" \/ provisions' # provisions) =>
        \A i \in 1..Len(tenants) :
            tenants[i].status = "DELETED" =>
                /\ i <= Len(tenants')
                /\ tenants'[i].status = "DELETED"

C11_DeletedIsTerminal == [][C11_DeletedStep]_vars

\* the audit rows of a tenant with this action and status
AuditRows(log, tenant_id, action, status) ==
    {i \in 1..Len(log) : /\ log[i].tenant_id = tenant_id
                         /\ log[i].action = action
                         /\ log[i].status = status}

\* C12: when provision returns the tenant, every step having succeeded, the
\* tenant's row is ACTIVE with activated_at set and the audit log holds
\* exactly one create/success row for the tenant.
C12_SuccessStep ==
    \A c \in Callers :
        (call[c].pc # "done" /\ call'[c].pc = "done"
            /\ call'[c].result = "ok") =>
            LET tenant_id == _generate_tenant_id(call[c].subdomain) IN
            /\ _validate_subdomain(call[c].subdomain) = "ok"
            /\ Cardinality(TenantsById(tenants', tenant_id)) = 1
            /\ TenantRow(tenants', tenant_id).status = "ACTIVE"
            /\ TenantRow(tenants', tenant_id).activated_at # None
            /\ Cardinality(AuditRows(provisioning_log', tenant_id,
                                     "create", "success")) = 1

C12_SuccessIsActiveAndAudited == [][C12_SuccessStep]_vars

\* a provision call has returned the tenant: ACTIVE, stamped, audited
C12_Witness ==
    \E c \in Callers :
        /\ call[c].pc = "done"
        /\ call[c].result = "ok"
        /\ LET tenant_id == _generate_tenant_id(call[c].subdomain) IN
           /\ TenantsById(tenants, tenant_id) # {}
           /\ TenantRow(tenants, tenant_id).status = "ACTIVE"
           /\ TenantRow(tenants, tenant_id).activated_at # None
           /\ AuditRows(provisioning_log, tenant_id, "create", "success") # {}
           /\ AuditRows(provisioning_log, tenant_id, "create", "started") # {}

\* C13: a resume request for a tenant that is not SUSPENDED is answered 400
\* and changes neither the tenant rows nor the services; for a SUSPENDED
\* tenant, unless the Docker calls raise, it is answered 200, the tenant is
\* ACTIVE with suspended_at cleared and its services run one replica.
C13_ResumeStep ==
    Answered("resume_tenant") =>
        LET tenant_id == response'.target[1] IN
        /\ TenantsById(tenants, tenant_id) = {} =>
              response'.status = 404 /\ UNCHANGED <<tenants, services>>
        /\ TenantsById(tenants, tenant_id) # {} =>
              LET row == TenantRow(tenants, tenant_id)
                  after == TenantRow(tenants', tenant_id)
              IN IF row.status # "SUSPENDED"
                 THEN /\ response'.status = 400
                      /\ UNCHANGED <<tenants, services>>
                 ELSE \/ /\ response'.status = 200
                         /\ after.status = "ACTIVE"
                         /\ after.suspended_at = None
                         /\ after = [row EXCEPT !.status = "ACTIVE",
                                                !.suspended_at = None]
                         /\ DOMAIN services' = DOMAIN services
                         /\ tenant_id \in DOMAIN services' =>
                               services'[tenant_id] = 1
                      \/ /\ response'.status = 500
                         /\ UNCHANGED tenants

C14_SuspendStep ==
    (Answered("suspend_tenant")
        /\ TenantsById(tenants, response'.target[1]) # {}) =>
        LET tenant_id == response'.target[1]
            after == TenantRow(tenants', tenant_id)
            entry == provisioning_log'[Len(provisioning_log')]
        IN /\ response'.status = 200
           /\ Cardinality(TenantsById(tenants', tenant_id)) = 1
           /\ after.status = "SUSPENDED"
           /\ after.suspended_at # None
           /\ Len(provisioning_log') = Len(provisioning_log) + 1
           /\ SubSeq(provisioning_log', 1, Len(provisioning_log))
                 = provisioning_log
           /\ entry.tenant_id = tenant_id
           /\ entry.action = "suspend"
           /\ entry.status = "success"
           /\ entry.message \in ReasonInputs
           /\ <<"suspend_reason", entry.message>> \in after.metadata

C15_DeleteStep ==
    (/\ Answered("delete_tenant")
     /\ TenantsById(tenants, response'.target[1]) # {}
     /\ Len(provisioning_log') > Len(provisioning_log)) =>
        LET tenant_id == response'.target[1]
            row == TenantRow(tenants, tenant_id)
            after == TenantRow(tenants', tenant_id)
            entry == provisioning_log'[Len(provisioning_log')]
            step_failed ==
                \/ tenant_id \in DOMAIN services
                      /\ tenant_id \in DOMAIN services'
                \/ DbName(tenant_id) \in databases'
                \/ entry.status = "failed"
        IN step_failed =>
              /\ after.status = row.status
              /\ after.deleted_at = row.deleted_at
              /\ entry = ProvisioningLogEntry(tenant_id, "delete", "failed",
                                              entry.message)
              /\ entry.message # None
              /\ response'.status = 400

C15_DeleteFailureKeepsState == [][C15_DeleteStep]_vars

\* the audit action that belongs to the operation of this step
StepAction ==
    CASE response'.endpoint = "suspend_tenant" -> "suspend"
      [] response'.endpoint = "resume_tenant" -> "resume"
      [] response'.endpoint = "delete_tenant" -> "delete"
      [] OTHER -> "create"

\* C16: every step that inserts a tenant row or changes a tenant's status
\* appends an audit row for that tenant with the action of the operation.
C16_AuditStep ==
    \A i \in 1..Len(tenants') :
        (i > Len(tenants) \/ tenants'[i].status # tenants[i].status) =>
            /\ Len(provisioning_log') > Len(provisioning_log)
            /\ LET entry == provisioning_log'[Len(provisioning_log')]
               IN /\ entry.tenant_id = tenants'[i].id
                  /\ entry.action = StepAction

C16_TransitionsAreAudited == [][C16_AuditStep]_vars

(***************************************************************************)
(* The two audit logs                                                      *)
(***************************************************************************)
\* The retention engine and the control plane are separate programs with
\* separate databases: a run of SpecAudit is a run of either of them.
NextAudit ==
    \/ InitTenants /\ NextRetention
    \/ IdleRetention /\ NextControlPlane

SpecAudit == InitRetention /\ [][NextAudit]_vars

\* log is old with rows appended
Extends(log, old) ==
    /\ Len(log) >= Len(old)
    /\ SubSeq(log, 1, Len(old)) = old

\* C17: every step of the retention engine and of the control plane leaves
\* the rows already in TournamentDeletionLog and in ProvisioningLog as they
\* are and only appends: also the step that deletes the tournament or marks
\* the tenant DELETED.
C17_AppendOnlyStep ==
    /\ Extends(deletion_log', deletion_log)
    /\ Extends(provisioning_log', provisioning_log)

C17_LogsAreAppendOnly == [][C17_AppendOnlyStep]_vars

\* tournament 2 has been deleted and the rows logged for it are still there
C17_Witness ==
    /\ ~tournaments[2].exists
    /\ Rows(deletion_log, 2, "SCHEDULED") # {}
    /\ Rows(deletion_log, 2, "DELETED") # {}

(***************************************************************************)
(* The boundary of the operations and of the endpoints                     *)
(***************************************************************************)
\* the status codes a caller is meant to see from a request that failed
ClientErrors == {400, 403, 404, 409, 422}

\* caller c's provision ended in this step
Ended(c) ==
    /\ call[c].pc # "done"
    /\ call'[c].pc = "done"

\* C18: a provision call that fails ends with ProvisioningError, and with a
\* failed audit entry when it failed after the checks; a suspend, resume or
\* delete request that fails is answered with a 4xx status. No call ends
\* with a raw exception and no request with a 500.
C18_BoundaryStep ==
    /\ \A c \in Callers :
          (Ended(c) /\ call'[c].result # "ok") =>
              /\ call'[c].result = "ProvisioningError"
              /\ call'[c].failed_step \notin {"validate", "exists"} =>
                    /\ Len(provisioning_log') = Len(provisioning_log) + 1
                    /\ provisioning_log'[Len(provisioning_log')].status
                           = "failed"
    /\ (/\ response'.endpoint \in
               {"suspend_tenant", "resume_tenant", "delete_tenant"}
        /\ response'.status # 200)
           => response'.status \in ClientErrors

C18_FailuresAreCaught == [][C18_BoundaryStep]_vars

\* C19: a request without the configured key is answered 403 and changes
\* no tenant row, audit row, database, service, queued task or call.
C19_UnauthorizedStep ==
    (response'.endpoint # "none" /\ ~response'.authorized) =>
        /\ response'.status = 403
        /\ UNCHANGED <<tenants, provisioning_log, databases, services,
                       tasks, call, provisions>>

C19_UnauthorizedChangesNothing == [][C19_UnauthorizedStep]_vars

\* a signup webhook without the key was refused while an active tenant
\* existed and its stack was running
C19_Witness ==
    /\ response.endpoint = "signup_webhook"
    /\ ~response.authorized
    /\ response.status = 403
    /\ \E i \in 1..Len(tenants) : tenants[i].status = "ACTIVE"
    /\ tasks = <<>>

\* C20: an authorized request to POST /tenants or POST /webhooks/signup is
\* answered 400 for an invalid or reserved subdomain and 409 for an existing
\* one, with nothing enqueued, and 202 with the provision enqueued otherwise.
C20_EnqueueStep ==
    (/\ response'.endpoint \in {"create_tenant", "signup_webhook"}
     /\ response'.authorized) =>
        LET subdomain == response'.target[1] IN
        IF _validate_subdomain(subdomain) # "ok"
        THEN response'.status = 400 /\ tasks' = tasks
        ELSE IF TenantsBySubdomain(tenants, subdomain) # {}
        THEN response'.status = 409 /\ tasks' = tasks
        ELSE response'.status = 202 /\ tasks' = Append(tasks, subdomain)

C20_EnqueueOnlyAfterChecks == [][C20_EnqueueStep]_vars

(***************************************************************************)
(* Subdomain validation                                                    *)
(***************************************************************************)
\* a string of n characters "a"
Repeated(n) == [i \in 1..n |-> "a"]

\* the strings _validate_subdomain is applied to: short, of the shortest and
\* longest accepted length, too long, with a hyphen inside, first or last,
\* with an upper-case letter, reserved, and ending in a newline
ValidateInputs ==
    {<<>>, <<"a", "b">>, <<"a", "b", "c">>,
     <<"a", "c", "m", "e">>, <<"a", "-", "-", "1">>,
     <<"-", "a", "b", "c">>, <<"a", "b", "c", "-">>,
     <<"A", "c", "m", "e">>,
     <<"m", "a", "i", "l">>, <<"a", "d", "m", "i", "n">>,
     <<"w", "w", "w">>,
     Repeated(32), Repeated(33),
     <<"a", "c", "m", "e", "\n">>, <<"a", "b", "c", "\n">>,
     Repeated(32) \o <<"\n">>}

\* provision(subdomain) up to its checks, for any string
Validate(c) ==
    \E subdomain \in ValidateInputs :
        /\ Begin(c, subdomain)
        /\ UNCHANGED tasks

NextValidate == \E c \in Callers : Validate(c)

SpecValidate == InitProvision /\ [][NextValidate]_vars

\* C21: _validate_subdomain raises for exactly the strings that are not of
\* the form [a-z0-9][a-z0-9-]{2,30}[a-z0-9], in particular for every string
\* shorter than 4 or longer than 32 characters, and the reserved strings.
C21_ValidationIsExact ==
    \A c \in Callers :
        call[c].n > 0 =>
            LET subdomain == call[c].subdomain IN
            /\ (call[c].failed_step = "validate") <=>
                   (~FullMatch(subdomain) \/ subdomain \in ReservedSubdomains)
            /\ (Len(subdomain) < 4 \/ Len(subdomain) > 32) =>
                   call[c].failed_step = "validate"

(***************************************************************************)
(* Eligibility, exemption and the order of the log                         *)
(***************************************************************************)
\* the policy is disabled: no retention period, or one of zero days or less
Disabled(retention_days) ==
    retention_days = None \/ retention_days[1] <= 0

\* C22: get_eligible_tournaments returns exactly the stored tournaments that
\* are not exempt, not scheduled, and whose age has reached the retention
\* period; with the policy disabled it returns none and schedule_eligible
\* changes neither a tournament nor the log.
C22_EligibleExactly ==
    \A retention_days \in RetentionDaysInputs :
        LET eligible == get_eligible_tournaments(tournaments, now,
                                                 retention_days)
        IN IF Disabled(retention_days)
           THEN /\ eligible = {}
                /\ \A dry_run \in BOOLEAN :
                      LET r == schedule_eligible(tournaments, deletion_log,
                                 now, grace_hours, retention_days, dry_run)
                      IN r.T = tournaments /\ r.log = deletion_log
           ELSE \A t \in TournamentIds :
                   t \in eligible <=>
                      /\ tournaments[t].exists
                      /\ ~tournaments[t].retention_exempt
                      /\ tournaments[t].scheduled_for_deletion_at = None
                      /\ tournaments[t].created_at
                            + retention_days[1] * HoursPerDay <= now

\* a scheduling call has run; one tournament is scheduled, the other is old
\* enough, unscheduled and exempt
C22_Witness ==
    /\ last.called
    /\ \E t, u \in TournamentIds :
          /\ tournaments[t].exists
          /\ tournaments[t].scheduled_for_deletion_at # None
          /\ tournaments[u].exists
          /\ tournaments[u].retention_exempt
          /\ tournaments[u].scheduled_for_deletion_at = None
          /\ tournaments[u].created_at + HoursPerDay <= now

\* C23: every run of purge_tournaments, whatever its flags, runs the
\* retention cycle and ends normally.
C23_CommandStep ==
    last'.command # "none" =>
        /\ last'.command = "done"
        /\ last'.called

C23_CommandCompletes == [][C23_CommandStep]_vars

\* C24: an archive written by export_tournament_csv_zip has _manifest.json
\* and the file of every table of CSV_TABLES among its member names, and the
\* first line of each table's file lists every declared column of the table.
C24_ArchiveComplete ==
    archive # NoArchive =>
        /\ "_manifest.json" \in namelist(archive)
        /\ \A i \in 1..Len(CSV_TABLES) :
              LET table == CSV_TABLES[i] IN
              /\ table.name \in namelist(archive)
              /\ \A m \in 1..Len(archive) :
                    archive[m].name = table.name =>
                        /\ Len(archive[m].lines) >= 1
                        /\ \A c \in 1..Len(table.columns) :
                              \E k \in 1..Len(archive[m].lines[1].cells) :
                                 archive[m].lines[1].cells[k]
                                    = table.columns[c]

\* an archive of a tournament with an empty table and a populated one
C24_Witness ==
    /\ archive # NoArchive
    /\ \E m, k \in 1..Len(archive) :
          /\ archive[m].name = "rounds.csv"
          /\ Len(archive[m].lines) = 1
          /\ archive[k].name = "teams.csv"
          /\ Len(archive[k].lines) > 1

(***************************************************************************)
(* Order, retries and termination of a provision call                      *)
(***************************************************************************)
\* the positions of a provision call, in the order of the code
StepOrder ==
    <<"checked", "create_database", "deploy", "wait_healthy",
      "run_migrations", "mark_active">>

Position(pc) == CHOOSE i \in 1..Len(StepOrder) : StepOrder[i] = pc

\* the tenant of caller c's call becomes ACTIVE in this step
BecomesActive(c) ==
    LET tenant_id == _generate_tenant_id(call[c].subdomain) IN
    /\ call[c].pc # "done"
    /\ call'[c].pc = "done"
    /\ TenantsById(tenants', tenant_id) # {}
    /\ TenantRow(tenants', tenant_id).status = "ACTIVE"

\* C25: a call moves from each step to the next one of the order or ends,
\* and when it makes its tenant ACTIVE the row was persisted, the database
\* exists, the stack is deployed, a health poll succeeded and the migration
\* ran and exited 0 in this call.
C25_OrderStep ==
    \A c \in Workers :
        /\ (call[c].pc \notin {"idle", "done"} /\ call'[c].pc # call[c].pc)
              => \/ call'[c].pc = "done"
                 \/ Position(call'[c].pc) = Position(call[c].pc) + 1
        /\ BecomesActive(c) =>
              LET tenant_id == _generate_tenant_id(call[c].subdomain) IN
              /\ call[c].pc = "mark_active"
              /\ TenantsById(tenants, tenant_id) # {}
              /\ DbName(tenant_id) \in databases
              /\ tenant_id \in DOMAIN services
              /\ call[c].attempts >= 1
              /\ call[c].checks >= 1
              /\ call[c].migrated

C25_StepsInOrder == [][C25_OrderStep]_vars

\* the step before this one in the order of the code
Predecessor(pc) == StepOrder[Position(pc) - 1]

\* the tenant row of caller c's call is in ERROR after this step
EndsInError(c) ==
    LET tenant_id == _generate_tenant_id(call[c].subdomain) IN
    /\ call'[c].result = "ProvisioningError"
    /\ TenantsById(tenants', tenant_id) # {}
    /\ TenantRow(tenants', tenant_id).status = "ERROR"

\* C27: database creation is attempted at most 3 times in a call and again
\* only after an attempt that failed; deploy, health check and migrations are
\* each entered once, from the step before them; the third failure of
\* database creation and the first failure of any other step end the call
\* with the tenant in ERROR.
C27_RetryStep ==
    \A c \in Workers :
        /\ call'[c].attempts <= 3
        /\ (call[c].pc = "create_database" /\ call'[c] # call[c]) =>
              /\ call'[c].attempts = call[c].attempts + 1
              /\ call'[c].pc = "create_database" =>
                    (call'[c].attempts < 3 /\ databases' = databases)
              /\ call'[c].pc = "done" =>
                    (call'[c].attempts = 3 /\ EndsInError(c))
        /\ (call[c].pc \in {"deploy", "run_migrations"}
                /\ call'[c] # call[c]) => call'[c].pc # call[c].pc
        /\ (call[c].pc \in {"deploy", "wait_healthy", "run_migrations"}
                /\ call'[c].pc = "done") => EndsInError(c)
        /\ (call'[c].pc \in {"deploy", "wait_healthy", "run_migrations"}
                /\ call'[c].pc # call[c].pc) =>
              call[c].pc = Predecessor(call'[c].pc)

C27_BoundedRetries == [][C27_RetryStep]_vars

\* a call ended in ERROR after its third attempt to create the database
C27_Witness ==
    \E c \in Workers :
        /\ call[c].pc = "done"
        /\ call[c].failed_step = "create_database"
        /\ call[c].attempts = 3
        /\ TenantRow(tenants,
               _generate_tenant_id(call[c].subdomain)).status = "ERROR"

\* caller c's call has persisted its row and is not finished
Running(c) == call[c].pc \in ProvisionSteps \cup {"mark_active"}

\* caller c's call persisted its row and ended
Terminated(c) ==
    /\ call[c].pc = "done"
    /\ call[c].failed_step \notin {"validate", "exists", "insert"}

ExportedThenDeleted(log, i) ==
    /\ i > 1
    /\ log[i].status = "DELETED"
    /\ log[i].archive_path # <<>>
    /\ log[i - 1].status = "EXPORTED"
    /\ log[i - 1].tournament_id = log[i].tournament_id
    /\ log[i - 1].archive_path = log[i].archive_path

\* C26: in a call that works in EXPORT_THEN_DELETE mode every DELETED row it
\* writes comes directly after the EXPORTED row of the same tournament with
\* the same archive path, and the tournament is gone when the row is written.
C26_OrderStep ==
    (last'.called /\ last'.mode = "EXPORT_THEN_DELETE") =>
        \A i \in (Len(deletion_log) + 1)..Len(deletion_log') :
            deletion_log'[i].status = "DELETED" =>
                /\ ExportedThenDeleted(deletion_log', i)
                /\ i - 1 > Len(deletion_log)
                /\ tournaments[deletion_log'[i].tournament_id].exists
                /\ ~tournaments'[deletion_log'[i].tournament_id].exists

C26_ExportedBeforeDeleted == [][C26_OrderStep]_vars

\* a tournament was exported and deleted in EXPORT_THEN_DELETE mode
C26_Witness ==
    /\ last.mode = "EXPORT_THEN_DELETE"
    /\ \E i \in 1..Len(deletion_log) :
          /\ ExportedThenDeleted(deletion_log, i)
          /\ last.fates[deletion_log[i].tournament_id] = "deleted"
          /\ ~tournaments[deletion_log[i].tournament_id].exists

\* tournament t is scheduled, its grace period is over, and it is exempt
ExemptPastDue(t) ==
    /\ tournaments[t].exists
    /\ tournaments[t].retention_exempt
    /\ tournaments[t].scheduled_for_deletion_at # None
    /\ tournaments[t].scheduled_for_deletion_at[1] <= now

\* C28: a scheduled tournament that is exempt when its deletion is due is
\* not returned by get_scheduled_for_deletion, and no call of the engine
\* deletes it or writes a row for it.
C28_ExemptStep ==
    \A t \in TournamentIds :
        ExemptPastDue(t) =>
            /\ t \notin get_scheduled_for_deletion(tournaments, now)
            /\ tournaments'[t].exists
            /\ \A i \in (Len(deletion_log) + 1)..Len(deletion_log') :
                  deletion_log'[i].tournament_id # t

C28_ExemptAfterScheduling == [][C28_ExemptStep]_vars

\* process_deletions has just deleted one tournament and left alone another
\* whose deletion was due and which had been made exempt
C28_Witness ==
    /\ last.called
    /\ \E t, u \in TournamentIds :
          /\ ExemptPastDue(t)
          /\ last.fates[t] = "untouched"
          /\ last.fates[u] = "deleted"

(***************************************************************************)
(* ACTIVE tenants                                                          *)
(***************************************************************************)
\* C29: every tenant whose status is ACTIVE has activated_at set, that is,
\* a provision call for it completed; suspend, resume and delete do not make
\* a PROVISIONING or ERROR tenant ACTIVE.
C29_ActiveWasActivated ==
    \A i \in 1..Len(tenants) :
        tenants[i].status = "ACTIVE" => tenants[i].activated_at # None

====
